---- MODULE Spec2Model ----
(***************************************************************************)
(* Model of src/main.py (dso-code-comment-remover).                        *)
(*                                                                         *)
(* A text is a sequence of one-character strings.  The regular-expression  *)
(* calls of remove_comments (re.sub, re.findall) are modelled by what the  *)
(* regex engine does: a left-to-right scan that, at each position, tries   *)
(* the pattern and, on a match, skips to the position after the match.     *)
(* The run of the program (main, detect_encoding, remove_comments) is a    *)
(* state machine over pc, with the file system's answers and the           *)
(* exceptions the I/O calls can raise chosen nondeterministically.         *)
(***************************************************************************)
EXTENDS Integers, Sequences, FiniteSets, TLC

\* ------------------------------------------------------------ bounds
\* Longest input text, in tokens, of the specification of the text passes.
MaxTokens == 4
\* Longest file content, in tokens, of the specification of the whole run.
MaxIoTokens == 1

\* ------------------------------------------------------------ characters
NL == "\n"
CR == "\r"

SlashSlash == <<"/", "/">>
BlockOpen == <<"/", "*">>
BlockClose == <<"*", "/">>
Hash == <<"#">>
DashDash == <<"-", "-">>
CopyrightWord == <<"C", "o", "p", "y", "r", "i", "g", "h", "t">>

\* The pieces input texts are built from: every character the patterns
\* mention, a plain character, the newline, and the word "Copyright".
Tokens ==
    { <<"/">>, <<"*">>, <<"#">>, <<"-">>, <<NL>>, <<"x">>,
      BlockOpen, BlockClose, CopyrightWord }

RECURSIVE TextsUpTo(_, _)
TextsUpTo(toks, n) ==
    IF n = 0 THEN { <<>> }
    ELSE LET T == TextsUpTo(toks, n - 1)
         IN  T \cup { t \o k : t \in T, k \in toks }

\* ------------------------------------------------------------ regex engine
\* s has the literal m at position p.
At(s, p, m) ==
    /\ p >= 1
    /\ p + Len(m) - 1 <= Len(s)
    /\ SubSeq(s, p, p + Len(m) - 1) = m

\* '.*' from position p: greedy, '.' matches every character but "\n".
\* The index of the last character consumed (p - 1 when none).
RECURSIVE DotStarEnd(_, _)
DotStarEnd(s, p) ==
    IF p > Len(s) \/ s[p] = NL THEN p - 1 ELSE DotStarEnd(s, p + 1)

\* '[\s\S]*?\*/' from position p: lazy, so the first position q >= p that
\* holds "*/"; 0 when there is none.
RECURSIVE LazyClose(_, _)
LazyClose(s, p) ==
    IF p + 1 > Len(s) THEN 0
    ELSE IF At(s, p, BlockClose) THEN p
    ELSE LazyClose(s, p + 1)

Min(S) == CHOOSE m \in S : \A x \in S : m <= x

\* Variant: '.' also matches the newline that ends the line (r'<marker>.*\n?').
LineCommentMatchEnd_EatsNewline(marker, s, p) ==
    IF At(s, p, marker)
    THEN LET e == DotStarEnd(s, p + Len(marker))
         IN  IF e + 1 <= Len(s) THEN e + 1 ELSE e
    ELSE 0

\* Variant: the pattern is the marker alone (r'<marker>').
LineCommentMatchEnd_MarkerOnly(marker, s, p) ==
    IF At(s, p, marker) THEN p + Len(marker) - 1 ELSE 0

\* r'<marker>.*' tried at position p: index of the last character matched,
\* 0 when the pattern does not match at p.
LineCommentMatchEnd(marker, s, p) ==
    IF At(s, p, marker) THEN DotStarEnd(s, p + Len(marker)) ELSE 0

\* Variant: greedy r'/\*[\s\S]*\*/', which runs to the last "*/" of the text.
BlockMatchEnd_Greedy(s, p) ==
    IF At(s, p, BlockOpen)
    THEN LET Q == { q \in (p + 2)..(Len(s) - 1) : At(s, q, BlockClose) }
         IN  IF Q = {} THEN 0 ELSE (CHOOSE q \in Q : \A r \in Q : r <= q) + 1
    ELSE 0

\* r'/\*[\s\S]*?\*/' tried at position p.
BlockMatchEnd(s, p) ==
    IF At(s, p, BlockOpen)
    THEN LET q == LazyClose(s, p + 2) IN IF q = 0 THEN 0 ELSE q + 1
    ELSE 0

PatSlash == "//.*"
PatBlock == "/\\*[\\s\\S]*?\\*/"
PatHash == "#.*"
PatDash == "--.*"

MatchEnd(pat, s, p) ==
    CASE pat = PatSlash -> LineCommentMatchEnd(SlashSlash, s, p)
      [] pat = PatBlock -> BlockMatchEnd(s, p)
      [] pat = PatHash  -> LineCommentMatchEnd(Hash, s, p)
      [] pat = PatDash  -> LineCommentMatchEnd(DashDash, s, p)

\* Variant: re.sub(pat, '', s, count=1), which removes the first match only.
SubKeep_FirstOnly(pat, s, p) ==
    LET M == { q \in p..Len(s) : MatchEnd(pat, s, q) # 0 }
    IN  IF M = {} THEN p..Len(s)
        ELSE (p..Len(s)) \ (Min(M)..MatchEnd(pat, s, Min(M)))

\* re.sub(pat, '', s): the positions of s that no match covers.  Matches are
\* found left to right and do not overlap; the scan resumes after a match.
RECURSIVE SubKeep(_, _, _)
SubKeep(pat, s, p) ==
    IF p > Len(s) THEN {}
    ELSE LET e == MatchEnd(pat, s, p)
         IN  IF e # 0 THEN SubKeep(pat, s, e + 1)
             ELSE {p} \cup SubKeep(pat, s, p + 1)

\* The characters of s at the positions K, in order.
RECURSIVE PickFrom(_, _, _)
PickFrom(s, K, p) ==
    IF p > Len(s) THEN <<>>
    ELSE (IF p \in K THEN <<s[p]>> ELSE <<>>) \o PickFrom(s, K, p + 1)

Pick(s, K) == PickFrom(s, K, 1)

ReSub(pat, s) == Pick(s, SubKeep(pat, s, 1))

\* ------------------------------------------------------------ the four passes
\* Variant: the block-comment pass runs last.
PassOrder_BlockLast == <<PatSlash, PatHash, PatDash, PatBlock>>

\* The patterns of lines 60, 63, 66 and 69, in the order they are applied.
PassOrder == <<PatSlash, PatBlock, PatHash, PatDash>>

RECURSIVE ApplyPasses(_, _, _)
ApplyPasses(order, s, k) ==
    IF k > Len(order) THEN s ELSE ApplyPasses(order, ReSub(order[k], s), k + 1)

\* code after lines 59-69 of remove_comments.
StripPasses(s) == ApplyPasses(PassOrder, s, 1)

\* ------------------------------------------------------------ copyright notices
\* Variant: '^' without re.MULTILINE, the start of the string only.
AtLineStart_NoMultiline(s, p) == p = 1

\* '^' under re.MULTILINE: the start of the string or right after a newline.
AtLineStart(s, p) == p = 1 \/ (p > 1 /\ s[p - 1] = NL)

\* '$' under re.MULTILINE: the end of the string or right before a newline.
AtLineEnd(s, p) == p = Len(s) + 1 \/ (p <= Len(s) /\ s[p] = NL)

\* copyright_pattern r'^(Copyright.*)$' tried at position p: index of the
\* last character matched, 0 when the pattern does not match at p.
CopyrightMatchEnd(s, p) ==
    IF AtLineStart(s, p) /\ At(s, p, CopyrightWord)
    THEN LET e == DotStarEnd(s, p + Len(CopyrightWord))
         IN  IF AtLineEnd(s, e + 1) THEN e ELSE 0
    ELSE 0

\* re.findall(copyright_pattern, code, re.MULTILINE): the spans <<first,
\* last>> of the matches, left to right.
RECURSIVE FindAllFrom(_, _)
FindAllFrom(s, p) ==
    IF p > Len(s) THEN <<>>
    ELSE LET e == CopyrightMatchEnd(s, p)
         IN  IF e # 0 THEN << <<p, e>> >> \o FindAllFrom(s, e + 1)
             ELSE FindAllFrom(s, p + 1)

FindAll(s) == FindAllFrom(s, 1)

\* copyright_notices: the matched texts.
CopyrightNotices(s) ==
    LET spans == FindAll(s)
    IN  [k \in 1..Len(spans) |-> SubSeq(s, spans[k][1], spans[k][2])]

\* sep.join(parts)
RECURSIVE Join(_, _)
Join(parts, sep) ==
    IF Len(parts) = 0 THEN <<>>
    ELSE IF Len(parts) = 1 THEN parts[1]
    ELSE parts[1] \o sep \o Join(Tail(parts), sep)

\* preserved_code of lines 71-77.
PreservedCode(s, all) ==
    IF ~all THEN Join(CopyrightNotices(s), <<NL>>) \o <<NL>> \o s ELSE s

\* For each character of preserved_code, the position in the text read from
\* the input file that it was copied from (0 for a newline that line 75
\* adds).  org gives that position for each character of s.
PreservedOrigin(s, org, all) ==
    LET spans == FindAll(s)
        parts == [k \in 1..Len(spans) |-> SubSeq(org, spans[k][1], spans[k][2])]
    IN  IF ~all THEN Join(parts, <<0>>) \o <<0>> \o org ELSE org

\* ------------------------------------------------------------ file input
\* Text-mode read with the default newline=None: "\r\n" and "\r" become "\n".
RECURSIVE UniversalNewlines(_)
UniversalNewlines(s) ==
    IF Len(s) = 0 THEN <<>>
    ELSE IF s[1] = CR
         THEN <<NL>> \o UniversalNewlines(
                  IF Len(s) >= 2 /\ s[2] = NL THEN SubSeq(s, 3, Len(s)) ELSE Tail(s))
         ELSE <<s[1]>> \o UniversalNewlines(Tail(s))

IoTokens == Tokens \cup { <<CR>> }

\* ------------------------------------------------------------ encodings and exceptions
None == "None"
Utf8 == "utf-8"
\* What chardet.detect(raw_data)['encoding'] can be.
DetectResults == { None, Utf8, "ISO-8859-1" }

\* Exceptions the file and codec calls raise; all are subclasses of Exception.
FileNotFound == "FileNotFoundError"
Exceptions == { FileNotFound, "PermissionError", "UnicodeError", "LookupError" }
OpenErrors == { FileNotFound, "PermissionError", "LookupError" }
CodecErrors == { "UnicodeError" }

\* Variant: no fallback.
FallbackEncoding_Keep(enc) == enc

\* 'if not encoding: encoding = "utf-8"' (lines 52-54).
FallbackEncoding(enc) == IF enc = None THEN Utf8 ELSE enc

\* encoding= argument of io.open at line 56 and at line 80.
InputOpenEncoding(enc) == enc
OutputOpenEncoding(enc) == enc

\* Variant: only the 'except FileNotFoundError' clause.
RemoveCommentsHandler_OnlyFileNotFound(exc) ==
    IF exc = FileNotFound THEN "File not found" ELSE "propagate"

\* The except clauses of remove_comments (lines 85-88): the message logged,
\* or "propagate" when no clause catches the exception.
RemoveCommentsHandler(exc) ==
    IF exc = FileNotFound THEN "File not found"
    ELSE IF exc \in Exceptions THEN "An error occurred"
    ELSE "propagate"

\* Variant: the 'return' of line 104 is missing.
AfterValidation_NoReturn(isFile) == "detect"

\* main, lines 102-111: where control goes after the input validation.
AfterValidation(isFile) == IF isFile THEN "detect" ELSE "done"

\* ------------------------------------------------------------ state
VARIABLES
    pc,           \* the statement the run is at
    fileText,     \* decoded content of the input file
    inputIsFile,  \* os.path.isfile(args.input_file)
    outputExists, \* os.path.exists(args.output_file)
    remove_all,   \* args.remove_all
    detected,     \* result of detect_encoding
    encoding,     \* local variable encoding of remove_comments
    src,          \* the text infile.read() returned
    code,         \* local variable code
    origin,       \* for each character of code, its position in src
    preserved,    \* local variable preserved_code
    preservedOrigin, \* for each character of preserved, its position in src, or 0
    io,           \* the file operations attempted so far, in order
    readEnc,      \* encoding the input was opened with
    writeEnc,     \* encoding the output was opened with
    outFile,      \* state of the output file
    raised,       \* exceptions raised so far: <<where, exception>>
    log           \* log entries so far: <<level, message>>

vars == <<pc, fileText, inputIsFile, outputExists, remove_all, detected, encoding,
          src, code, origin, preserved, preservedOrigin, io, readEnc, writeEnc,
          outFile, raised, log>>

textVars == <<src, code, origin, preserved, preservedOrigin>>
envVars == <<fileText, inputIsFile, outputExists, remove_all>>

Iota(n) == [i \in 1..n |-> i]

Init ==
    /\ pc = "main"
    /\ fileText \in TextsUpTo(IoTokens, MaxIoTokens)
    /\ inputIsFile \in BOOLEAN
    /\ outputExists \in BOOLEAN
    /\ remove_all \in BOOLEAN
    /\ detected = None
    /\ encoding = None
    /\ src = <<>> /\ code = <<>> /\ origin = <<>>
    /\ preserved = <<>> /\ preservedOrigin = <<>>
    /\ io = <<>>
    /\ readEnc = None /\ writeEnc = None
    /\ outFile = IF outputExists THEN "old" ELSE "absent"
    /\ raised = <<>>
    /\ log = <<>>

\* ------------------------------------------------------------ main
\* Lines 101-111: input validation, the overwrite warning, the call.
Validate ==
    /\ pc = "main"
    /\ pc' = AfterValidation(inputIsFile)
    /\ log' = IF ~inputIsFile
              THEN Append(log, <<"ERROR", "Input file does not exist">>)
              ELSE IF outputExists
                   THEN Append(log, <<"WARNING", "Output file already exists">>)
                   ELSE log
    /\ UNCHANGED <<envVars, textVars, detected, encoding, io, readEnc, writeEnc,
                   outFile, raised>>

\* ------------------------------------------------------------ detect_encoding
\* Lines 32-39, called at line 51.  open() fails when the path is no file;
\* otherwise open() or read() may still raise, or chardet answers.
DetectEncoding ==
    /\ pc = "detect"
    /\ \/ \E exc \in OpenErrors \ {"LookupError"} :
            /\ io' = Append(io, "open input rb")
            /\ raised' = Append(raised, <<"detect_encoding", exc>>)
            /\ log' = Append(log, <<"ERROR", "Error detecting encoding">>)
            /\ detected' = None
       \/ /\ inputIsFile
          /\ \E enc \in DetectResults :
               /\ io' = io \o <<"open input rb", "read input">>
               /\ detected' = enc
               /\ UNCHANGED <<raised, log>>
    /\ pc' = "fallback"
    /\ UNCHANGED <<envVars, textVars, encoding, readEnc, writeEnc, outFile>>

\* Lines 51-54: encoding = detect_encoding(...); the fallback to utf-8.
Fallback ==
    /\ pc = "fallback"
    /\ encoding' = FallbackEncoding(detected)
    /\ log' = IF detected = None
              THEN Append(log, <<"ERROR", "Could not detect encoding">>)
              ELSE log
    /\ pc' = "read"
    /\ UNCHANGED <<envVars, textVars, detected, io, readEnc, writeEnc, outFile, raised>>

\* An exception raised inside the try block of remove_comments at `where`.
Raise(where, exc) ==
    LET h == RemoveCommentsHandler(exc)
    IN  /\ raised' = Append(raised, <<where, exc>>)
        /\ IF h = "propagate"
           THEN pc' = "crashed" /\ log' = log
           ELSE pc' = "done" /\ log' = Append(log, <<"ERROR", h>>)

\* Lines 56-57: open the input with the encoding and read it.
Read ==
    /\ pc = "read"
    /\ \/ \E exc \in OpenErrors :
            /\ io' = Append(io, "open input r")
            /\ Raise("read", exc)
            /\ UNCHANGED <<textVars, readEnc>>
       \/ /\ inputIsFile
          /\ \E exc \in CodecErrors :
               /\ io' = io \o <<"open input r", "read input">>
               /\ readEnc' = InputOpenEncoding(encoding)
               /\ Raise("read", exc)
               /\ UNCHANGED textVars
       \/ /\ inputIsFile
          /\ io' = io \o <<"open input r", "read input">>
          /\ readEnc' = InputOpenEncoding(encoding)
          /\ src' = UniversalNewlines(fileText)
          /\ code' = src'
          /\ origin' = Iota(Len(src'))
          /\ pc' = "pass1"
          /\ UNCHANGED <<preserved, preservedOrigin, raised, log>>
    /\ UNCHANGED <<envVars, detected, encoding, writeEnc, outFile>>

\* ------------------------------------------------------------ the passes
ioVars == <<detected, encoding, io, readEnc, writeEnc, outFile, raised, log>>

\* code = re.sub(pat, '', code)
SubInCode(pat) ==
    LET K == SubKeep(pat, code, 1)
    IN  /\ code' = Pick(code, K)
        /\ origin' = Pick(origin, K)

\* Line 60: code = re.sub(r'//.*', '', code)
PassSlash ==
    /\ pc = "pass1"
    /\ SubInCode(PassOrder[1])
    /\ pc' = "pass2"
    /\ UNCHANGED <<envVars, src, preserved, preservedOrigin, ioVars>>

\* Line 63: code = re.sub(r'/\*[\s\S]*?\*/', '', code)
PassBlock ==
    /\ pc = "pass2"
    /\ SubInCode(PassOrder[2])
    /\ pc' = "pass3"
    /\ UNCHANGED <<envVars, src, preserved, preservedOrigin, ioVars>>

\* Line 66: code = re.sub(r'#.*', '', code)
PassHash ==
    /\ pc = "pass3"
    /\ SubInCode(PassOrder[3])
    /\ pc' = "pass4"
    /\ UNCHANGED <<envVars, src, preserved, preservedOrigin, ioVars>>

\* Line 69: code = re.sub(r'--.*', '', code)
PassDash ==
    /\ pc = "pass4"
    /\ SubInCode(PassOrder[4])
    /\ pc' = "preserve"
    /\ UNCHANGED <<envVars, src, preserved, preservedOrigin, ioVars>>

\* Lines 71-77: the copyright notices, preserved_code.
Preserve ==
    /\ pc = "preserve"
    /\ preserved' = PreservedCode(code, remove_all)
    /\ preservedOrigin' = PreservedOrigin(code, origin, remove_all)
    /\ pc' = "write"
    /\ UNCHANGED <<envVars, src, code, origin, ioVars>>

\* ------------------------------------------------------------ output
\* Lines 80-81: open the output for writing (which creates or truncates it)
\* and write preserved_code.
Write ==
    /\ pc = "write"
    /\ \/ \E exc \in OpenErrors \ {"LookupError"} :
            /\ io' = Append(io, "open output w")
            /\ Raise("write", exc)
            /\ UNCHANGED <<writeEnc, outFile>>
       \/ \E exc \in CodecErrors :
            /\ io' = io \o <<"open output w", "write output">>
            /\ writeEnc' = OutputOpenEncoding(encoding)
            /\ outFile' = "truncated"
            /\ Raise("write", exc)
       \/ /\ io' = io \o <<"open output w", "write output">>
          /\ writeEnc' = OutputOpenEncoding(encoding)
          /\ outFile' = "written"
          /\ pc' = "log"
          /\ UNCHANGED <<raised, log>>
    /\ UNCHANGED <<envVars, textVars, detected, encoding, readEnc>>

\* Line 83: the success message.
LogSuccess ==
    /\ pc = "log"
    /\ log' = Append(log, <<"INFO", "Comments removed">>)
    /\ pc' = "done"
    /\ UNCHANGED <<envVars, textVars, detected, encoding, io, readEnc, writeEnc,
                   outFile, raised>>

Next ==
    \/ Validate
    \/ DetectEncoding
    \/ Fallback
    \/ Read
    \/ PassSlash
    \/ PassBlock
    \/ PassHash
    \/ PassDash
    \/ Preserve
    \/ Write
    \/ LogSuccess

Spec == Init /\ [][Next]_vars

\* ------------------------------------------------------------ the text passes alone
\* Worked examples of the documentation, as texts.
ExLineComment == <<"/", "/", " ", "h", "e", "l", "l", "o", NL, "c", "o", "d", "e">>
ExBlockComment ==
    <<"/", "*", " ", "b", "l", "o", "c", "k", NL,
      "c", "o", "m", "m", "e", "n", "t", " ", "*", "/", NL, "k", "e", "e", "p">>
ExSqlComment ==
    <<"-", "-", " ", "s", "q", "l", NL, "S", "E", "L", "E", "C", "T", " ", "1">>
ExCopyright ==
    CopyrightWord \o <<" ", "2", "0", "2", "4", NL,
                       "/", "/", " ", "c", NL, "c", "o", "d", "e">>
Examples == { ExLineComment, ExBlockComment, ExSqlComment, ExCopyright }

\* remove_comments right after a successful read of a utf-8 file: the state
\* the four passes and the copyright step start from.
StripInit ==
    /\ pc = "pass1"
    /\ fileText \in TextsUpTo(Tokens, MaxTokens) \cup Examples
    /\ inputIsFile = TRUE
    /\ outputExists = FALSE
    /\ remove_all \in BOOLEAN
    /\ detected = Utf8
    /\ encoding = Utf8
    /\ src = fileText /\ code = fileText /\ origin = Iota(Len(fileText))
    /\ preserved = <<>> /\ preservedOrigin = <<>>
    /\ io = <<"open input rb", "read input", "open input r", "read input">>
    /\ readEnc = Utf8 /\ writeEnc = None
    /\ outFile = "absent"
    /\ raised = <<>>
    /\ log = <<>>

StripNext ==
    \/ PassSlash
    \/ PassBlock
    \/ PassHash
    \/ PassDash
    \/ Preserve

StripSpec == StripInit /\ [][StripNext]_vars

\* ------------------------------------------------------------ vocabulary of the properties
Range(f) == { f[i] : i \in DOMAIN f }

\* The positions of s where the literal m occurs.
Occurrences(s, m) == { p \in 1..Len(s) : At(s, p, m) }

Contains(s, m) == Occurrences(s, m) # {}

\* s holds none of the comment markers.
MarkerFree(s) ==
    /\ ~Contains(s, SlashSlash)
    /\ ~Contains(s, BlockOpen)
    /\ ~Contains(s, Hash)
    /\ ~Contains(s, DashDash)

\* No newline lies at or between positions i and j >= i of s.
SameLine(s, i, j) == \A k \in i..j : s[k] # NL

\* Position p of s follows an occurrence of marker on its line.
AfterMarker(s, p, marker) ==
    \E j \in Occurrences(s, marker) : j + Len(marker) <= p /\ SameLine(s, j, p)

\* The first of the positions closes that follows the "/*" at position p
\* (0: none).
NearestIn(closes, p) ==
    LET Q == { q \in closes : q >= p + 2 }
    IN  IF Q = {} THEN 0 ELSE Min(Q)

\* The first "*/" that follows the "/*" at position p (0: none).
NearestClose(s, p) == NearestIn(Occurrences(s, BlockClose), p)

\* The lines of s (split at "\n"), first to last.
NumLines(s) == Cardinality(Occurrences(s, <<NL>>)) + 1

RECURSIVE NthLineStart(_, _)
NthLineStart(s, n) ==
    IF n = 1 THEN 1
    ELSE Min({ q \in Occurrences(s, <<NL>>) : q >= NthLineStart(s, n - 1) }) + 1

LineAt(s, a) ==
    LET Q == { q \in Occurrences(s, <<NL>>) : q >= a }
    IN  SubSeq(s, a, IF Q = {} THEN Len(s) ELSE Min(Q) - 1)

Lines(s) == [n \in 1..NumLines(s) |-> LineAt(s, NthLineStart(s, n))]

StartsWithCopyright(line) == At(line, 1, CopyrightWord)

CopyrightLines(s) == SelectSeq(Lines(s), StartsWithCopyright)

\* Every line followed by a newline.
RECURSIVE Unlines(_)
Unlines(ls) == IF ls = <<>> THEN <<>> ELSE ls[1] \o <<NL>> \o Unlines(Tail(ls))

\* Lines 71-77 have run: preserved_code is computed.
AfterPreserve == pc \in {"write", "log"}

\* ------------------------------------------------------------ C1
\* C1 (as amended): with remove_all false, preserved_code is the lines of the
\* stripped text that start with "Copyright", in order, joined by a newline,
\* then one newline, then the stripped text; every extracted line so appears
\* twice; and when the input is a single copyright line L that holds no comment
\* marker, the output is L, newline, L.
C1_PrependedCopyrightBlock ==
    (AfterPreserve /\ ~remove_all) =>
        LET ls == CopyrightLines(code)
        IN  /\ preserved = (IF ls = <<>> THEN <<NL>> ELSE Unlines(ls)) \o code
            /\ Len(CopyrightLines(preserved)) = 2 * Len(ls)
            /\ (NumLines(src) = 1 /\ StartsWithCopyright(src) /\ MarkerFree(src))
                   => preserved = src \o <<NL>> \o src

\* C1 witness: two copyright lines were extracted from a text the passes changed.
C1_Witness ==
    /\ AfterPreserve /\ ~remove_all
    /\ Len(CopyrightLines(code)) = 2
    /\ code # src

\* C1 as stated: for every single copyright line L the output is L, newline, L.
C1_Original ==
    (AfterPreserve /\ ~remove_all /\ NumLines(src) = 1 /\ StartsWithCopyright(src))
        => preserved = src \o <<NL>> \o src

\* ------------------------------------------------------------ C2
\* C2 (as stated): for marker-free text the output with remove_all true is the
\* text; with remove_all false it is the text when no line starts with
\* "Copyright", and the text behind its copyright block otherwise.
C2_MarkerFreeUnchanged ==
    (AfterPreserve /\ MarkerFree(src)) =>
        /\ remove_all => preserved = src
        /\ (~remove_all /\ CopyrightLines(src) = <<>>) => preserved = src
        /\ (~remove_all /\ CopyrightLines(src) # <<>>)
               => preserved = Unlines(CopyrightLines(src)) \o src

\* ------------------------------------------------------------ C3
\* C3: with remove_all true, running the four passes on the output changes
\* nothing.
C3_Idempotent ==
    (AfterPreserve /\ remove_all) => StripPasses(preserved) = preserved

\* C3 witness: a block comment was removed and the characters on its two
\* sides, now adjacent, are in the output.
C3_Witness ==
    /\ AfterPreserve /\ remove_all
    /\ \E i \in 1..(Len(preserved) - 1) :
          /\ preservedOrigin[i + 1] > preservedOrigin[i] + 1
          /\ preserved[i] # NL /\ preserved[i + 1] # NL
          /\ At(src, preservedOrigin[i] + 1, BlockOpen)

\* ------------------------------------------------------------ C4
\* What a line-comment pass keeps: the positions that no occurrence of the
\* marker precedes (or covers) on their line.
LineCommentKept(s, marker) ==
    LET occ == Occurrences(s, marker)
    IN  { i \in 1..Len(s) : ~\E j \in occ : j <= i /\ SameLine(s, j, i) }

\* The block comments of s, left to right: a "/*" that has a following "*/"
\* and does not start inside an earlier block comment.
RECURSIVE BlockStarts(_, _, _)
BlockStarts(s, closes, n) ==
    IF n = 0 THEN {}
    ELSE LET B == BlockStarts(s, closes, n - 1)
         IN  IF /\ At(s, n, BlockOpen)
                /\ NearestIn(closes, n) # 0
                /\ \A a \in B : NearestIn(closes, a) + 1 < n
             THEN B \cup {n} ELSE B

BlockCommentKept(s) ==
    LET closes == Occurrences(s, BlockClose)
        starts == BlockStarts(s, closes, Len(s))
        spans == UNION { a..(NearestIn(closes, a) + 1) : a \in starts }
    IN  (1..Len(s)) \ spans

PassSlashSpec(s) == Pick(s, LineCommentKept(s, SlashSlash))
PassBlockSpec(s) == Pick(s, BlockCommentKept(s))
PassHashSpec(s) == Pick(s, LineCommentKept(s, Hash))
PassDashSpec(s) == Pick(s, LineCommentKept(s, DashDash))

CountNL(s) == Cardinality(Occurrences(s, <<NL>>))

\* C4: with remove_all true the output is the '//' pass, then the block pass,
\* then the '#' pass, then the '--' pass, each on the previous result, and
\* nothing else; a line-comment pass keeps every newline; the documented
\* examples give the documented results.
C4_FourPassesInOrder ==
    /\ (AfterPreserve /\ remove_all) =>
          /\ preserved = PassDashSpec(PassHashSpec(PassBlockSpec(PassSlashSpec(src))))
          /\ src = ExLineComment => preserved = <<NL, "c", "o", "d", "e">>
          /\ src = ExSqlComment =>
                 preserved = <<NL, "S", "E", "L", "E", "C", "T", " ", "1">>
          /\ src = ExBlockComment => preserved = <<NL, "k", "e", "e", "p">>
    /\ pc = "pass2" => CountNL(code) = CountNL(src)
    /\ pc = "pass3" => CountNL(ReSub(PatHash, code)) = CountNL(code)
    /\ pc = "pass4" => CountNL(ReSub(PatDash, code)) = CountNL(code)

\* C4 witness: an output that another order of the passes would not give.
C4_Witness ==
    /\ AfterPreserve /\ remove_all
    /\ preserved # ApplyPasses(<<PatBlock, PatSlash, PatHash, PatDash>>, src, 1)

\* ------------------------------------------------------------ C5
\* The text and the origins after the first k passes, each pass taken by what
\* it is documented to remove.
RECURSIVE StageAfter(_, _)
DocumentedKeep(k, s) ==
    CASE k = 1 -> LineCommentKept(s, SlashSlash)
      [] k = 2 -> BlockCommentKept(s)
      [] k = 3 -> LineCommentKept(s, Hash)
      [] k = 4 -> LineCommentKept(s, DashDash)

StageAfter(s, k) ==
    IF k = 0 THEN [t |-> s, o |-> Iota(Len(s)), gone |-> {}]
    ELSE LET prev == StageAfter(s, k - 1)
             K == DocumentedKeep(k, prev.t)
         IN  [t |-> Pick(prev.t, K), o |-> Pick(prev.o, K),
              gone |-> prev.gone \cup { prev.o[i] : i \in (1..Len(prev.t)) \ K }]

\* The positions of s that one of the four passes matches, each in the text
\* the earlier passes leave.
MatchedByAPass(s) == StageAfter(s, 4).gone

\* Position p of s is inside a comment: after '//', '#' or '--' on its line,
\* or between a '/*' and the '*/' nearest to it.
InsideComment(s, p, n) ==
    \/ AfterMarker(s, p, SlashSlash)
    \/ AfterMarker(s, p, Hash)
    \/ AfterMarker(s, p, DashDash)
    \/ \E a \in Occurrences(s, BlockOpen) :
          a + 2 <= p /\ NearestClose(s, a) >= p + n

BlockSpans(s) ==
    LET closes == Occurrences(s, BlockClose)
    IN  { <<a, NearestIn(closes, a) + 1>> :
            a \in { x \in Occurrences(s, BlockOpen) : NearestIn(closes, x) # 0 } }

\* The "/*" at p starts inside (or shares a character with) one of the spans
\* that starts before it and that the pass, keeping K, removed.
InEarlierBlock(spans, K, p) ==
    \E sp \in spans :
        /\ sp[1] < p /\ p <= sp[2]
        /\ (sp[1]..sp[2]) \cap K = {}

\* C9 (as amended): the block-comment pass removes each '/*' that does not
\* start inside an earlier removed block comment, with everything up to and
\* including the nearest following '*/'; when such a '/*' has no following
\* '*/' it and all text after it are left unchanged; text outside every
\* '/*' ... nearest '*/' span is kept.
C9_BlockPass ==
    pc = "pass2" =>
        LET K == SubKeep(PatBlock, code, 1)
            spans == BlockSpans(code)
        IN  /\ \A sp \in spans :
                  ~InEarlierBlock(spans, K, sp[1]) => (sp[1]..sp[2]) \cap K = {}
            /\ \A p \in Occurrences(code, BlockOpen) :
                  (NearestClose(code, p) = 0 /\ ~InEarlierBlock(spans, K, p))
                      => p..Len(code) \subseteq K
            /\ (1..Len(code)) \ UNION { sp[1]..sp[2] : sp \in spans } \subseteq K

\* C9 witness: the pass removes one block comment and leaves a later,
\* unterminated '/*' in place.
C9_Witness ==
    /\ pc = "pass2"
    /\ LET K == SubKeep(PatBlock, code, 1)
           spans == BlockSpans(code)
       IN  \E sp \in spans : \E p \in Occurrences(code, BlockOpen) :
              /\ sp[1] < p
              /\ (sp[1]..sp[2]) \cap K = {}
              /\ NearestClose(code, p) = 0 /\ ~InEarlierBlock(spans, K, p)
              /\ p..Len(code) \subseteq K

\* C9 as stated: every '/*' is removed with everything up to its nearest
\* following '*/', and a '/*' with no following '*/' is left unchanged.
C9_Original ==
    pc = "pass2" =>
        LET K == SubKeep(PatBlock, code, 1)
        IN  \A p \in Occurrences(code, BlockOpen) :
                IF NearestClose(code, p) # 0
                THEN (p..(NearestClose(code, p) + 1)) \cap K = {}
                ELSE p..Len(code) \subseteq K

\* ------------------------------------------------------------ C10
\* C10: the output holds no '//', no '#' and no '--', whatever remove_all is.
C10_NoLineMarkerLeft ==
    AfterPreserve =>
        /\ ~Contains(preserved, SlashSlash)
        /\ ~Contains(preserved, Hash)
        /\ ~Contains(preserved, DashDash)

\* C10 witness: removing a block comment put two '-' side by side.
C10_Witness ==
    /\ AfterPreserve
    /\ ~Contains(src, DashDash)
    /\ Contains(ReSub(PatBlock, ReSub(PatSlash, src)), DashDash)

\* ------------------------------------------------------------ C6
\* C6: when the input path is no existing regular file, the run logs an error
\* and ends with no file operation attempted on the input or the output.
C6_InvalidInputNoIO ==
    ~inputIsFile =>
        /\ pc \in {"main", "done"}
        /\ pc = "done" =>
              /\ io = <<>>
              /\ outFile = (IF outputExists THEN "old" ELSE "absent")
              /\ log = << <<"ERROR", "Input file does not exist">> >>

\* C6 witness: a finished run on a missing input, with an output file present.
C6_Witness == ~inputIsFile /\ pc = "done" /\ outputExists /\ outFile = "old"

\* ------------------------------------------------------------ C7
RaisedIn(places) == { i \in DOMAIN raised : raised[i][1] \in places }

Logged(level, messages) ==
    { i \in DOMAIN log : log[i][1] = level /\ log[i][2] \in messages }

\* C7: every exception raised while detecting, reading or writing is caught
\* and has its error entry in the log; none leaves remove_comments; a run that
\* has not ended can go on; the success message is logged only after the
\* output was written.
C7_FailuresCaughtAndLogged ==
    /\ pc # "crashed"
    /\ Cardinality(Logged("ERROR", {"Error detecting encoding"}))
           = Cardinality(RaisedIn({"detect_encoding"}))
    /\ Cardinality(Logged("ERROR", {"File not found", "An error occurred"}))
           = Cardinality(RaisedIn({"read", "write"}))
    /\ RaisedIn({"read", "write"}) # {} => pc = "done"
    /\ pc # "done" => ENABLED Next
    /\ Logged("INFO", {"Comments removed"}) # {} =>
           /\ outFile = "written"
           /\ io[Len(io)] = "write output"
           /\ RaisedIn({"read", "write"}) = {}

\* C7 witness: a run in which detection failed and the write failed, ended.
C7_Witness ==
    /\ pc = "done"
    /\ RaisedIn({"detect_encoding"}) # {}
    /\ RaisedIn({"write"}) # {}
    /\ outFile = "truncated"

\* ------------------------------------------------------------ C8
\* Lines 51-54 have run.
AfterFallback == io # <<>> /\ pc \notin {"detect", "fallback"}

\* C8: when detection gives no result the run goes on with utf-8 and, unless
\* the read or the write raises, ends with the output written; the output is
\* opened with the encoding the input was opened with.
C8_Utf8FallbackSameEncoding ==
    /\ (AfterFallback /\ detected = None) => encoding = Utf8
    /\ (AfterFallback /\ detected = None /\ pc = "done"
            /\ RaisedIn({"read", "write"}) = {})
           => /\ outFile = "written"
              /\ readEnc = Utf8 /\ writeEnc = Utf8
    /\ readEnc # None => readEnc = encoding
    /\ writeEnc # None => writeEnc = readEnc
    /\ outFile \in {"written", "truncated"} => (writeEnc # None /\ writeEnc = readEnc)

\* C8 witness: a run whose detection gave no result ended with the output
\* written as utf-8.
C8_Witness ==
    /\ pc = "done"
    /\ detected = None
    /\ outFile = "written"
    /\ writeEnc = Utf8
    /\ Logged("ERROR", {"Could not detect encoding"}) # {}

====
